---- MODULE Spec2Model ----
(***************************************************************************)
(* Adverse media screener: one screening run, from the CLI command         *)
(* `screen` through the LangGraph workflow (fetch_article ->               *)
(* extract_entities -> match_person -> [analyze_sentiment] ->              *)
(* generate_report) back to the CLI's output processing.                   *)
(*                                                                         *)
(* Conventions.                                                            *)
(*  - An Optional[X] value is a sequence of length <= 1: << >> is None,    *)
(*    <<x>> is the value x.  match_decision, a string, uses "None".        *)
(*  - The run state is a record over the keys of ScreeningState.  A node   *)
(*    returns a delta (a record over the keys it returns); the graph       *)
(*    merges it with Merge, which writes only keys of the state schema.    *)
(*  - A call of a node is a record                                         *)
(*      [raised, delta, tracker, invoked, warnings]                        *)
(*    raised: "none" or the class of the exception that escaped run();     *)
(*    tracker: the CostTracker after the call; invoked: the steps          *)
(*    whose chain.invoke was called so far (the LLM calls made);           *)
(*    warnings: state["warnings"] after the in-place appends of the call.  *)
(***************************************************************************)
EXTENDS Integers, Sequences, FiniteSets, TLC

VARIABLES
    pc,         \* where the run is: a graph node, "route", "END", "raised", "cli_done"
    state,      \* the ScreeningState held by the graph
    tracker,    \* the CostTracker of the run: running totals and audit list
    invoked,    \* the steps whose chain.invoke was called, in order
    executed,   \* the graph nodes started so far, in order
    exc,        \* the exception that escaped graph.invoke: [node, type], type "none" if none
    produced,   \* Optional: the ScreeningResult constructed by ReportGenerationNode.run
    cli,        \* what the CLI printed and wrote: [printed, errors, json_written]
    assessed,   \* history: the assessments the matching loop was handed, in order
    unit        \* a unit exercised on its own (LLMFactory, validators, ArticleFetcher,
                \* the start of run_workflow): its inputs, its state, its last result

vars == <<pc, state, tracker, invoked, executed, exc, produced, cli, assessed, unit>>

(***************************************************************************)
(* Bounds of the model.                                                    *)
(***************************************************************************)
MaxEntities == 2

Names == {"Ann", "Bob"}
AgeOpts == {<< >>, <<40>>}
PublishDates == {<< >>, <<"2024-05-01">>}

None == << >>
Some(x) == <<x>>

(***************************************************************************)
(* Data model (src/src/models/outputs.py).                                 *)
(***************************************************************************)
PersonEntity == [full_name : Names, age : AgeOpts]

EntityLists == UNION {[1..n -> PersonEntity] : n \in 0..MaxEntities}

ArticleMetadata == [publish_date : PublishDates]

Confidences == {"HIGH", "MEDIUM", "LOW"}

\* match_probability in hundredths
Probabilities == {0, 90}

MatchAssessment ==
    [is_match : BOOLEAN, confidence : Confidences,
     match_probability : Probabilities,
     matched_entity : {None} \cup {Some(e) : e \in PersonEntity}]

\* The assessment SentimentAnalysisNode.run substitutes when its call fails.
TechnicalFailureAssessment ==
    [classification |-> "NEUTRAL", is_adverse_media |-> FALSE, severity |-> None,
     adverse_indicators |-> << >>, evidence_snippets |-> << >>,
     reasoning |-> "technical error"]

(***************************************************************************)
(* The run state (src/src/graph/state.py) and its merge.                   *)
(***************************************************************************)
StateKeys ==
    {"article_metadata", "article_text", "entities", "extraction_complete",
     "match_assessment", "match_decision", "sentiment_assessment",
     "final_report", "errors", "warnings", "llm_calls"}

\* run_workflow's initial_state
InitialState ==
    [article_metadata |-> None, article_text |-> None, entities |-> << >>,
     extraction_complete |-> FALSE, match_assessment |-> None,
     match_decision |-> "None", sentiment_assessment |-> None,
     final_report |-> None, errors |-> << >>, warnings |-> << >>,
     llm_calls |-> << >>]

\* The graph writes a node's update channel by channel: a key of the update
\* that is no key of the state schema has no channel and is not written.
Merge(s, delta) ==
    [k \in DOMAIN s |-> IF k \in DOMAIN delta THEN delta[k] ELSE s[k]]

\* state.get("steps_completed", []): the key is no channel of the state
StepsCompleted(s) ==
    IF "steps_completed" \in DOMAIN s THEN s["steps_completed"] ELSE << >>

NodeCall(raised, delta, trk, inv, warns) ==
    [raised |-> raised, delta |-> delta, tracker |-> trk, invoked |-> inv,
     warnings |-> warns]

(***************************************************************************)
(* Node 1: fetch_article_node (src/src/graph/workflow.py).                 *)
(* outcome: Some(metadata) when fetch_and_parse returns, else the class of *)
(* the exception it raised.                                                *)
(***************************************************************************)
FetchFailures == {"ValueError", "ConnectionError", "RuntimeError", "HTTPError"}

FetchOutcomes ==
    [ok : {TRUE}, metadata : ArticleMetadata, error : {"none"}]
    \cup [ok : {FALSE}, metadata : {[publish_date |-> None]}, error : FetchFailures]

FetchErrorMsg(e) == "Article fetching failed: " \o e

fetch_article_node(s, outcome) ==
    IF outcome.ok
    THEN [article_metadata |-> Some(outcome.metadata),
          article_text |-> Some("text"),
          steps_completed |-> <<"fetch_article">>]
    ELSE [errors |-> Append(s.errors, FetchErrorMsg(outcome.error)),
          match_decision |-> "NO_MATCH",
          steps_completed |-> <<"fetch_article_failed">>]

(***************************************************************************)
(* CostTracker (src/src/llm/cost_tracker.py).                              *)
(* A token count is kept in halves of a token, because the callers pass    *)
(* 1.5 times a word count; a price is in cents per million tokens.  A cost *)
(* is then a whole number of units of one cent per 2 000 000, and the      *)
(* arithmetic is exact.                                                    *)
(***************************************************************************)
Providers == {"groq", "openai", "anthropic"}

LLM_PRICING_USD_PER_M ==
    [groq      |-> [input |-> 59, output |-> 59],
     openai    |-> [input |-> 500, output |-> 1500],
     anthropic |-> [input |-> 300, output |-> 1500,
                    cache_read |-> 30, cache_write |-> 375]]

\* LLM_PRICING_USD_PER_M.get((provider, kind), 0)
Price(provider, kind) ==
    IF kind \in DOMAIN LLM_PRICING_USD_PER_M[provider]
    THEN LLM_PRICING_USD_PER_M[provider][kind]
    ELSE 0

\* calculate_cost charging every provider the cache rates of Anthropic
calculate_cost_m(provider, prompt_tokens, completion_tokens, cache_read_tokens, cache_write_tokens) ==
    prompt_tokens * Price(provider, "input")
    + completion_tokens * Price(provider, "output")
    + cache_read_tokens * Price("anthropic", "cache_read")
    + cache_write_tokens * Price("anthropic", "cache_write")

\* CostTracker._calculate_cost
calculate_cost(provider, prompt_tokens, completion_tokens, cache_read_tokens, cache_write_tokens) ==
    LET input_cost  == prompt_tokens * Price(provider, "input")
        output_cost == completion_tokens * Price(provider, "output")
        cache_read_cost ==
            IF provider = "anthropic"
            THEN cache_read_tokens * Price(provider, "cache_read")
            ELSE 0
        cache_write_cost ==
            IF provider = "anthropic"
            THEN cache_write_tokens * Price(provider, "cache_write")
            ELSE 0
    IN  input_cost + output_cost + cache_read_cost + cache_write_cost

\* CostTracker.__init__
NewCostTracker ==
    [total_tokens |-> 0, prompt_tokens |-> 0, completion_tokens |-> 0,
     cache_read_tokens |-> 0, cache_write_tokens |-> 0, total_cost_usd |-> 0,
     llm_calls |-> << >>]

\* record_usage recomputing total_tokens from this call alone
record_usage_m(trk, provider, prompt_tokens, completion_tokens, cache_read_tokens, cache_write_tokens, step_name) ==
    LET cost == calculate_cost(provider, prompt_tokens, completion_tokens,
                               cache_read_tokens, cache_write_tokens)
    IN  [total_tokens       |-> prompt_tokens + completion_tokens,
         prompt_tokens      |-> trk.prompt_tokens + prompt_tokens,
         completion_tokens  |-> trk.completion_tokens + completion_tokens,
         cache_read_tokens  |-> trk.cache_read_tokens + cache_read_tokens,
         cache_write_tokens |-> trk.cache_write_tokens + cache_write_tokens,
         total_cost_usd     |-> trk.total_cost_usd + cost,
         llm_calls |->
             Append(trk.llm_calls,
                    [step |-> step_name, provider |-> provider,
                     prompt_tokens |-> prompt_tokens,
                     completion_tokens |-> completion_tokens,
                     cache_read_tokens |-> cache_read_tokens,
                     cache_write_tokens |-> cache_write_tokens,
                     cost_usd |-> cost])]

\* CostTracker.record_usage
record_usage(trk, provider, prompt_tokens, completion_tokens, cache_read_tokens, cache_write_tokens, step_name) ==
    LET cost == calculate_cost(provider, prompt_tokens, completion_tokens,
                               cache_read_tokens, cache_write_tokens)
        prompt     == trk.prompt_tokens + prompt_tokens
        completion == trk.completion_tokens + completion_tokens
    IN  [total_tokens       |-> prompt + completion,
         prompt_tokens      |-> prompt,
         completion_tokens  |-> completion,
         cache_read_tokens  |-> trk.cache_read_tokens + cache_read_tokens,
         cache_write_tokens |-> trk.cache_write_tokens + cache_write_tokens,
         total_cost_usd     |-> trk.total_cost_usd + cost,
         llm_calls |->
             Append(trk.llm_calls,
                    [step |-> step_name, provider |-> provider,
                     prompt_tokens |-> prompt_tokens,
                     completion_tokens |-> completion_tokens,
                     cache_read_tokens |-> cache_read_tokens,
                     cache_write_tokens |-> cache_write_tokens,
                     cost_usd |-> cost])]

\* get_metadata reporting the prompt tokens as the total
get_metadata_m(trk) ==
    [total_tokens |-> trk.prompt_tokens, prompt_tokens |-> trk.prompt_tokens,
     completion_tokens |-> trk.completion_tokens,
     cache_read_tokens |-> trk.cache_read_tokens,
     cache_write_tokens |-> trk.cache_write_tokens,
     estimated_cost_usd |-> trk.total_cost_usd]

\* CostTracker.get_metadata
get_metadata(trk) ==
    [total_tokens |-> trk.total_tokens, prompt_tokens |-> trk.prompt_tokens,
     completion_tokens |-> trk.completion_tokens,
     cache_read_tokens |-> trk.cache_read_tokens,
     cache_write_tokens |-> trk.cache_write_tokens,
     estimated_cost_usd |-> trk.total_cost_usd]

\* the step names of the audit list, in order
TrackerSteps(trk) == [i \in DOMAIN trk.llm_calls |-> trk.llm_calls[i].step]

(***************************************************************************)
(* Values a chain hands back.  Every chain but the report chain ends in a  *)
(* JsonOutputParser, whose result is a dict; a Python value is modelled    *)
(* with its type, because reading an attribute of a dict raises            *)
(* AttributeError.                                                         *)
(***************************************************************************)
DictOf(fields) == [type |-> "dict", fields |-> fields]

\* an instance of a class with these attributes
ObjectOf(fields) == [type |-> "object", fields |-> fields]

HasAttr(value, name) == value.type = "object" /\ name \in DOMAIN value.fields

\* The size of one exchange with the LLM: the word counts of str(input_vars)
\* and of str(response).
Usages == {[in_words |-> 2, out_words |-> 2], [in_words |-> 1, out_words |-> 2]}

NoUsage == [in_words |-> 0, out_words |-> 0]

\* words * 1.5, in halves of a token
EstimatedTokens(words) == words * 3

\* settings.default_llm_provider, which _get_llm_chain_node binds into every node
primary_provider == "groq"

\* BaseNode._invoke_chain_with_tracking: chain.invoke raises (nothing is
\* recorded), or it returns and record_usage appends one entry for the step.
InvokeRaises(outcome) == outcome.kind = "raise"

TrackerAfterInvoke(trk, step, outcome) ==
    IF InvokeRaises(outcome) THEN trk
    ELSE record_usage(trk, primary_provider,
                      EstimatedTokens(outcome.usage.in_words),
                      EstimatedTokens(outcome.usage.out_words), 0, 0, step)

(***************************************************************************)
(* Node 2: EntityExtractionNode.run (src/src/nodes/extraction.py).         *)
(* outcome: the chain raises, or returns a value that                      *)
(* ExtractionOutput.model_validate rejects ("invalid") or accepts.         *)
(***************************************************************************)
ExtractOutcomes ==
    {[kind |-> "raise", entities |-> << >>, usage |-> NoUsage]}
    \cup [kind : {"invalid"}, entities : {<< >>}, usage : Usages]
    \cup [kind : {"valid"}, entities : EntityLists, usage : Usages]

MissingContentError == "Critical: Article content not found for extraction."
ExtractionError == "Entity extraction failed"
NoEntitiesWarning == "No people entities were extracted from the article."

\* ContentMissing with the guard on the wrong field
ContentMissing_m(s) == s.article_text = None /\ s.article_metadata # None

\* the guard of the fail-fast return: `if not article_content`
ContentMissing(s) == s.article_text = None

\* MissingContentDelta forgetting the errors of the stages before
MissingContentDelta_m(s) ==
    [errors |-> <<MissingContentError>>, extraction_complete |-> FALSE]

\* the fail-fast return
MissingContentDelta(s) ==
    [errors |-> Append(s.errors, MissingContentError),
     extraction_complete |-> FALSE]

ExtractionRun(s, trk, inv, outcome) ==
    IF ContentMissing(s)
    THEN NodeCall("none", MissingContentDelta(s), trk, inv, s.warnings)
    ELSE IF s.article_metadata = None
    THEN \* article_metadata.url of None, before the try
         NodeCall("AttributeError", << >>, trk, inv, s.warnings)
    ELSE LET inv2 == Append(inv, "entity_extraction")
             trk2 == TrackerAfterInvoke(trk, "entity_extraction", outcome)
         IN  IF outcome.kind = "valid"
             THEN NodeCall("none",
                           [entities |-> outcome.entities,
                            extraction_complete |-> TRUE,
                            warnings |-> IF outcome.entities # << >>
                                         THEN s.warnings
                                         ELSE Append(s.warnings, NoEntitiesWarning),
                            steps_completed |->
                                Append(StepsCompleted(s), "extract_entities")],
                           trk2, inv2, s.warnings)
             ELSE NodeCall("none",
                           [errors |-> Append(s.errors, ExtractionError),
                            extraction_complete |-> FALSE],
                           trk2, inv2, s.warnings)

(***************************************************************************)
(* Node 3: NameMatchingNode (src/src/nodes/matching.py).                   *)
(***************************************************************************)
\* What the LLM is asked for: {"final_assessment": {...}}, no matched_entity.
LLMAssessments ==
    [is_match : BOOLEAN, confidence : Confidences,
     match_probability : Probabilities, matched_entity : {None}]

\* The size of an exchange plays no part in the loop: one size for all.
MatchUsage == [in_words |-> 2, out_words |-> 2]

MatchOutcomes ==
    {[kind |-> "raise", value |-> DictOf(<< >>), usage |-> NoUsage]}
    \cup {[kind |-> "returns", value |-> DictOf([final_assessment |-> a]),
           usage |-> MatchUsage] : a \in LLMAssessments}

\* entity.dict(): a plain dict of the entity's fields
EntityDict(entity) == DictOf(entity)

\* config/prompts.py format_entity_for_prompt reads entity.full_name,
\* entity.age, ...: attributes, which its dict argument does not have.
\* "AttributeError" or "xml".
format_entity_for_prompt(entity) ==
    IF HasAttr(entity, "full_name") THEN "xml" ELSE "AttributeError"

MatchStep(entity) == "match_entity_" \o entity.full_name

MatchWarning(entity) == "Matching failed for entity " \o entity.full_name

\* Better keeping the smaller probability
Better_m(assessment, best) ==
    best = None \/ assessment.match_probability < best[1].match_probability

\* `best_assessment is None or assessment.match_probability >
\* best_assessment.match_probability`
Better(assessment, best) ==
    best = None \/ assessment.match_probability > best[1].match_probability

\* One pass of the for loop of _get_best_match over entities[i..], from the
\* accumulated acc = [raised, best, tracker, invoked, warnings].  doubles:
\* the names a test harness has replaced by doubles that do not raise.
RECURSIVE BestMatchLoop(_, _, _, _, _)
BestMatchLoop(entities, outcomes, i, acc, doubles) ==
    IF i > Len(entities) \/ acc.raised # "none" THEN acc
    ELSE LET entity == entities[i]
             out    == outcomes[i]
         IN
         IF /\ "format_entity_for_prompt" \notin doubles
            /\ format_entity_for_prompt(EntityDict(entity)) = "AttributeError"
         THEN \* prompt_vars is built before the try: the exception escapes
              [acc EXCEPT !.raised = "AttributeError"]
         ELSE LET inv2 == Append(acc.invoked, MatchStep(entity))
                  trk2 == TrackerAfterInvoke(acc.tracker, MatchStep(entity), out)
                  failed == [acc EXCEPT !.invoked = inv2, !.tracker = trk2,
                                 !.warnings = Append(acc.warnings, MatchWarning(entity))]
              IN  IF InvokeRaises(out) \/ ~HasAttr(out.value, "match_assessment")
                  THEN \* except Exception: warn, skip the entity
                       BestMatchLoop(entities, outcomes, i + 1, failed, doubles)
                  ELSE LET assessment ==
                               [out.value.fields.match_assessment
                                  EXCEPT !.matched_entity = Some(entity)]
                       IN  BestMatchLoop(entities, outcomes, i + 1,
                               [acc EXCEPT !.invoked = inv2, !.tracker = trk2,
                                    !.best = IF Better(assessment, acc.best)
                                             THEN Some(assessment)
                                             ELSE acc.best],
                               doubles)

\* _get_best_match
GetBestMatch(s, trk, inv, outcomes, doubles) ==
    LET acc0 == [raised |-> "none", best |-> None, tracker |-> trk,
                 invoked |-> inv, warnings |-> s.warnings]
    IN  IF s.article_metadata = None
        THEN \* article_metadata.publish_date of None
             [acc0 EXCEPT !.raised = "AttributeError"]
        ELSE IF s.entities = << >> THEN acc0
        ELSE BestMatchLoop(s.entities, outcomes, 1, acc0, doubles)

\* Decision without the confidence
Decision_m(best) == IF best.is_match THEN "MATCH" ELSE "NO_MATCH"

\* The decision NameMatchingNode.run derives from the best assessment.
Decision(best) ==
    IF best.is_match
    THEN (IF best.confidence = "HIGH" THEN "MATCH" ELSE "UNCERTAIN")
    ELSE "NO_MATCH"

\* NoEntitiesAssessment with another confidence
NoEntitiesAssessment_m ==
    [is_match |-> FALSE, confidence |-> "MEDIUM", match_probability |-> 0,
     matched_entity |-> None]

\* The assessment of the "no entities" return.
NoEntitiesAssessment ==
    [is_match |-> FALSE, confidence |-> "LOW", match_probability |-> 0,
     matched_entity |-> None]

\* The "no entities" return of NameMatchingNode.run.
NoEntitiesDelta(s) ==
    [match_decision |-> "NO_MATCH",
     match_assessment |-> Some(NoEntitiesAssessment),
     steps_completed |-> Append(StepsCompleted(s), "match_person")]

AllFailedError == "Critical: All LLM matching attempts failed."

\* CostTracker has no get_latest_calls: reading it raises AttributeError.
CostTrackerAttrs == {"_calculate_cost", "record_usage", "get_metadata"}

\* The return of NameMatchingNode.run for a best assessment; latest_calls
\* is what cost_tracker.get_latest_calls() hands back.
MatchedDelta(s, best, latest_calls) ==
    [match_assessment |-> best,
     match_decision |-> Decision(best[1]),
     steps_completed |-> Append(StepsCompleted(s), "match_person"),
     llm_calls |-> s.llm_calls \o latest_calls]

\* The last return of NameMatchingNode.run: no entity was assessed.
AllFailedDelta(s) ==
    [match_decision |-> "NO_MATCH",
     errors |-> Append(s.errors, AllFailedError),
     steps_completed |-> Append(StepsCompleted(s), "match_person_failed")]

MatchingRun(s, trk, inv, outcomes, doubles) ==
    IF s.entities = << >>
    THEN NodeCall("none", NoEntitiesDelta(s), trk, inv, s.warnings)
    ELSE LET r == GetBestMatch(s, trk, inv, outcomes, doubles)
         IN  IF r.raised # "none"
             THEN NodeCall(r.raised, << >>, r.tracker, r.invoked, r.warnings)
             ELSE IF r.best # None
             THEN IF "get_latest_calls" \in CostTrackerAttrs \cup doubles
                  THEN NodeCall("none", MatchedDelta(s, r.best, r.tracker.llm_calls),
                                r.tracker, r.invoked, r.warnings)
                  ELSE \* the return dict is built outside any try
                       NodeCall("AttributeError", << >>, r.tracker, r.invoked,
                                r.warnings)
             ELSE NodeCall("none", AllFailedDelta(s), r.tracker, r.invoked,
                           r.warnings)

\* NameMatchingNode.run with _get_best_match and get_latest_calls stubbed:
\* _get_best_match made one call per entity and returned best.
RECURSIVE RecordSteps(_, _)
RecordSteps(trk, steps) ==
    IF steps = << >> THEN trk
    ELSE RecordSteps(
             TrackerAfterInvoke(trk, Head(steps),
                                [kind |-> "returns", usage |-> MatchUsage]),
             Tail(steps))

MatchingRunStubbed(s, trk, inv, best) ==
    IF s.entities = << >>
    THEN NodeCall("none", NoEntitiesDelta(s), trk, inv, s.warnings)
    ELSE LET steps == [i \in 1..Len(s.entities) |-> MatchStep(s.entities[i])]
         IN  IF best # None
             THEN NodeCall("none", MatchedDelta(s, best, << >>),
                           RecordSteps(trk, steps), inv \o steps, s.warnings)
             ELSE NodeCall("none", AllFailedDelta(s), RecordSteps(trk, steps),
                           inv \o steps, s.warnings)

\* route_match_decision sending only MATCH to the sentiment stage
route_match_decision_m(s) ==
    IF s.match_decision = "MATCH" THEN "sentiment" ELSE "report"

\* route_match_decision: "sentiment" or "report"
route_match_decision(s) ==
    IF s.match_decision \in {"MATCH", "UNCERTAIN"} THEN "sentiment"
    ELSE IF s.match_decision = "NO_MATCH" THEN "report"
    ELSE "report"

\* the path map of add_conditional_edges
ConditionalEdges(route) ==
    IF route = "sentiment" THEN "analyze_sentiment" ELSE "generate_report"

(***************************************************************************)
(* Node 4: SentimentAnalysisNode.run (src/src/nodes/sentiment.py).         *)
(***************************************************************************)
SentimentAssessments ==
    {[classification |-> "NEGATIVE", is_adverse_media |-> TRUE,
      severity |-> Some("HIGH"), adverse_indicators |-> <<"fraud">>,
      evidence_snippets |-> <<"quote">>, reasoning |-> "llm"],
     [classification |-> "POSITIVE", is_adverse_media |-> FALSE,
      severity |-> None, adverse_indicators |-> << >>,
      evidence_snippets |-> << >>, reasoning |-> "llm"]}

SentimentOutcomes ==
    {[kind |-> "raise", value |-> DictOf(<< >>), usage |-> NoUsage]}
    \cup {[kind |-> "returns", value |-> DictOf([assessment |-> a]), usage |-> u] :
            a \in SentimentAssessments, u \in Usages}

SentimentError == "Sentiment analysis failed"

\* SentimentSkipped running the stage for confident matches only
SentimentSkipped_m(s) ==
    s.match_assessment = None \/ s.match_assessment[1].confidence # "HIGH"

\* the guard of the skip: `not match_assessment or not match_assessment.is_match`
SentimentSkipped(s) ==
    s.match_assessment = None \/ ~s.match_assessment[1].is_match

\* SentimentFailedDelta without the error
SentimentFailedDelta_m(s) ==
    [errors |-> s.errors,
     sentiment_assessment |-> Some(TechnicalFailureAssessment),
     steps_completed |-> Append(StepsCompleted(s), "analyze_sentiment_failed")]

\* the return of the except branch
SentimentFailedDelta(s) ==
    [errors |-> Append(s.errors, SentimentError),
     sentiment_assessment |-> Some(TechnicalFailureAssessment),
     steps_completed |-> Append(StepsCompleted(s), "analyze_sentiment_failed")]

SentimentRun(s, trk, inv, outcome, doubles) ==
    IF SentimentSkipped(s)
    THEN NodeCall("none",
                  [sentiment_assessment |-> None,
                   steps_completed |->
                       Append(StepsCompleted(s), "analyze_sentiment_skipped")],
                  trk, inv, s.warnings)
    ELSE IF s.match_assessment[1].matched_entity = None
    THEN \* matched_entity.full_name of None, before the try
         NodeCall("AttributeError", << >>, trk, inv, s.warnings)
    ELSE LET inv2 == Append(inv, "sentiment_analysis")
             trk2 == TrackerAfterInvoke(trk, "sentiment_analysis", outcome)
         IN  IF /\ ~InvokeRaises(outcome)
                /\ HasAttr(outcome.value, "sentiment_assessment")
                /\ "get_latest_calls" \in CostTrackerAttrs \cup doubles
             THEN NodeCall("none",
                           [sentiment_assessment |->
                                Some(outcome.value.fields.sentiment_assessment),
                            steps_completed |->
                                Append(StepsCompleted(s), "analyze_sentiment"),
                            llm_calls |-> s.llm_calls \o trk2.llm_calls],
                           trk2, inv2, s.warnings)
             ELSE \* all three failures happen inside the try
                  NodeCall("none", SentimentFailedDelta(s), trk2, inv2, s.warnings)

(***************************************************************************)
(* Node 5: ReportGenerationNode.run (src/src/nodes/report.py).             *)
(* outcome: the chain raises, or returns the report text.  The            *)
(* ScreeningResult then validates or not: ProcessingMetadata declares its  *)
(* token totals int, the tracker holds sums of 1.5 * word counts, and an   *)
(* int field takes a float only if it is whole.                            *)
(***************************************************************************)
ReportOutcomes ==
    {[kind |-> "raise", usage |-> NoUsage]}
    \cup [kind : {"returns"}, usage : Usages]

\* an int field validating a float given in halves
IsWhole(halves) == halves % 2 = 0

MetadataValid(md) ==
    /\ IsWhole(md.total_tokens)
    /\ IsWhole(md.prompt_tokens)
    /\ IsWhole(md.completion_tokens)
    /\ IsWhole(md.cache_read_tokens)
    /\ IsWhole(md.cache_write_tokens)

\* ProcessingMetadata as validated: whole tokens; the cost stays a float
ProcessingMetadata(md) ==
    [total_tokens |-> md.total_tokens \div 2,
     prompt_tokens |-> md.prompt_tokens \div 2,
     completion_tokens |-> md.completion_tokens \div 2,
     cache_read_tokens |-> md.cache_read_tokens \div 2,
     cache_write_tokens |-> md.cache_write_tokens \div 2,
     estimated_cost_usd |-> md.estimated_cost_usd]

DecisionMissingError == "Cannot generate report: Final decision is missing from state."
ReportError == "Report generation failed"

\* DecisionMissing looking at the assessment as well
DecisionMissing_m(s) == s.match_decision = "None" /\ s.match_assessment = None

\* the guard of the precondition check: `if not final_decision`
DecisionMissing(s) == s.match_decision = "None"

\* Building report_data and dumping it to JSON, before the try:
\* the exception it raises, or "none".
ReportDataError(s) ==
    IF s.article_metadata = None THEN "AttributeError"
    ELSE IF s.match_assessment = None THEN "AttributeError"
    ELSE IF s.article_metadata[1].publish_date # None THEN "TypeError"
    ELSE "none"

\* ScreeningResultOf with a sentiment assessment filled in whatever the state holds
ScreeningResultOf_m(s, md) ==
    [decision |-> s.match_decision,
     match_assessment |-> s.match_assessment,
     sentiment_assessment |-> Some(TechnicalFailureAssessment),
     entities_found |-> s.entities,
     processing_metadata |-> ProcessingMetadata(md),
     errors_encountered |-> s.errors,
     warnings |-> s.warnings]

\* ScreeningResult(...) as the node constructs it, md the cost metadata
ScreeningResultOf(s, md) ==
    [decision |-> s.match_decision,
     match_assessment |-> s.match_assessment,
     sentiment_assessment |-> s.sentiment_assessment,
     entities_found |-> s.entities,
     processing_metadata |-> ProcessingMetadata(md),
     errors_encountered |-> s.errors,
     warnings |-> s.warnings]

ReportRun(s, trk, inv, outcome) ==
    IF DecisionMissing(s)
    THEN NodeCall("none",
                  [errors |-> Append(s.errors, DecisionMissingError),
                   report_complete |-> FALSE],
                  trk, inv, s.warnings)
    ELSE IF ReportDataError(s) # "none"
    THEN NodeCall(ReportDataError(s), << >>, trk, inv, s.warnings)
    ELSE LET inv2 == Append(inv, "report_generation")
             trk2 == TrackerAfterInvoke(trk, "report_generation", outcome)
             cost_metadata == get_metadata(trk2)
         IN  IF ~InvokeRaises(outcome) /\ MetadataValid(cost_metadata)
             THEN NodeCall("none",
                           [final_screening_result |->
                                ScreeningResultOf(s, cost_metadata),
                            report_complete |-> TRUE,
                            steps_completed |->
                                Append(StepsCompleted(s), "report_generation")],
                           trk2, inv2, s.warnings)
             ELSE NodeCall("none",
                           [errors |-> Append(s.errors, ReportError),
                            report_complete |-> FALSE],
                           trk2, inv2, s.warnings)

(***************************************************************************)
(* The CLI command screen (src/src/main.py), after run_workflow.           *)
(***************************************************************************)
InterruptedError == "Workflow interrupted by unhandled exception"

\* The final_state the output processing reads: what run_workflow returned,
\* or the error-only dict of `except Exception`.
FinalState(s, e) ==
    IF e.type = "none" THEN s ELSE [errors |-> <<InterruptedError>>]

\* main.py, "4. Final Output Processing"
ScreenOutput(final_state) ==
    IF "final_screening_result" \in DOMAIN final_state
    THEN [printed |-> "summary_and_report", errors |-> << >>,
          json_written |-> TRUE, final_state |-> final_state]
    ELSE [printed |-> "Screening Failed", errors |-> final_state.errors,
          json_written |-> FALSE, final_state |-> final_state]

(***************************************************************************)
(* The run.                                                                *)
(***************************************************************************)
NoException == [node |-> "none", type |-> "none"]

NothingPrinted ==
    [printed |-> "nothing", errors |-> << >>, json_written |-> FALSE,
     final_state |-> << >>]

\* no unit is exercised on its own in a run of the whole workflow
NoUnit == << >>

\* run_workflow: the graph is invoked on the initial state, at its entry point
Init ==
    /\ pc = "fetch_article"
    /\ state = InitialState
    /\ tracker = NewCostTracker
    /\ invoked = << >>
    /\ executed = << >>
    /\ exc = NoException
    /\ produced = None
    /\ cli = NothingPrinted
    /\ assessed = << >>
    /\ unit = NoUnit

\* The graph runs node, gets the call r and, unless run() raised, merges the
\* delta and follows the edge to next.
Step(node, r, next) ==
    /\ executed' = Append(executed, node)
    /\ tracker' = r.tracker
    /\ invoked' = r.invoked
    /\ produced' = IF r.raised = "none" /\ "final_screening_result" \in DOMAIN r.delta
                   THEN Some(r.delta.final_screening_result)
                   ELSE produced
    /\ cli' = cli
    /\ IF r.raised = "none"
       THEN /\ state' = Merge([state EXCEPT !.warnings = r.warnings], r.delta)
            /\ pc' = next
            /\ exc' = exc
       ELSE /\ state' = [state EXCEPT !.warnings = r.warnings]
            /\ pc' = "raised"
            /\ exc' = [node |-> node, type |-> r.raised]

FetchArticle ==
    /\ pc = "fetch_article"
    /\ \E outcome \in FetchOutcomes :
         Step("fetch_article",
              NodeCall("none", fetch_article_node(state, outcome), tracker,
                       invoked, state.warnings),
              "extract_entities")
    /\ UNCHANGED <<assessed, unit>>

ExtractEntities ==
    /\ pc = "extract_entities"
    /\ \E outcome \in ExtractOutcomes :
         Step("extract_entities",
              ExtractionRun(state, tracker, invoked, outcome), "match_person")
    /\ UNCHANGED <<assessed, unit>>

\* What the chain handed back, entity by entity: the assessments carried by
\* the responses that have a match_assessment, each with its entity.
Answers(entities, outcomes) ==
    LET idx == SelectSeq([i \in 1..Len(entities) |-> i],
                         LAMBDA i : /\ ~InvokeRaises(outcomes[i])
                                    /\ HasAttr(outcomes[i].value, "match_assessment"))
    IN  [k \in 1..Len(idx) |->
            [outcomes[idx[k]].value.fields.match_assessment
                EXCEPT !.matched_entity = Some(entities[idx[k]])]]

MatchPerson ==
    /\ pc = "match_person"
    /\ \E outcomes \in [1..Len(state.entities) -> MatchOutcomes] :
         /\ Step("match_person",
                 MatchingRun(state, tracker, invoked, outcomes, {}), "route")
         /\ assessed' = Answers(state.entities, outcomes)
         /\ UNCHANGED unit

\* the conditional edge out of match_person
RouteMatchDecision ==
    /\ pc = "route"
    /\ pc' = ConditionalEdges(route_match_decision(state))
    /\ UNCHANGED <<state, tracker, invoked, executed, exc, produced, cli, assessed, unit>>

AnalyzeSentiment ==
    /\ pc = "analyze_sentiment"
    /\ \E outcome \in SentimentOutcomes :
         Step("analyze_sentiment",
              SentimentRun(state, tracker, invoked, outcome, {}),
              "generate_report")
    /\ UNCHANGED <<assessed, unit>>

GenerateReport ==
    /\ pc = "generate_report"
    /\ \E outcome \in ReportOutcomes :
         Step("generate_report",
              ReportRun(state, tracker, invoked, outcome), "END")
    /\ UNCHANGED <<assessed, unit>>

\* screen: run_workflow returned (END) or raised
Screen ==
    /\ pc \in {"END", "raised"}
    /\ pc' = "cli_done"
    /\ cli' = IF exc.type = "ConnectionError"
              THEN [NothingPrinted EXCEPT !.printed = "CRITICAL FAILURE"]
              ELSE ScreenOutput(FinalState(state, exc))
    /\ UNCHANGED <<state, tracker, invoked, executed, exc, produced, assessed, unit>>

\* A run of the CLI.  No state reachable from Init is at analyze_sentiment
\* (NeverAtSentiment below), so the node is no disjunct here.
Next ==
    \/ FetchArticle
    \/ ExtractEntities
    \/ MatchPerson
    \/ RouteMatchDecision
    \/ GenerateReport
    \/ Screen

Spec == Init /\ [][Next]_vars

NeverAtSentiment == pc # "analyze_sentiment"

(***************************************************************************)
(* The run with the matching loop stubbed.  In Spec every non-empty entity *)
(* list makes match_person raise, so no run gets past it with a decision   *)
(* other than NO_MATCH.  SpecStubbed is the same run with                  *)
(* _get_best_match replaced by its result: None, or an assessment of one   *)
(* of the entities (the loop attaches the entity it assessed).  It is the  *)
(* specification of the claims about what follows a MATCH or UNCERTAIN.    *)
(***************************************************************************)
BestMatchResults(entities) ==
    {None} \cup
    {Some([a EXCEPT !.matched_entity = Some(entities[i])]) :
        a \in LLMAssessments, i \in 1..Len(entities)}

MatchPersonStubbed ==
    /\ pc = "match_person"
    /\ \E best \in BestMatchResults(state.entities) :
         Step("match_person",
              MatchingRunStubbed(state, tracker, invoked, best), "route")
    /\ UNCHANGED <<assessed, unit>>

NextStubbed ==
    \/ FetchArticle
    \/ ExtractEntities
    \/ MatchPersonStubbed
    \/ RouteMatchDecision
    \/ AnalyzeSentiment
    \/ GenerateReport
    \/ Screen

SpecStubbed == Init /\ [][NextStubbed]_vars

(***************************************************************************)
(* match_person under a test harness: format_entity_for_prompt and         *)
(* CostTracker.get_latest_calls are replaced by doubles that do not raise, *)
(* and the matching chain hands back what its prompt asks for (a dict), an *)
(* object with a match_assessment attribute (what the loop reads), or      *)
(* raises.  The run is taken up where extract_entities has returned its    *)
(* entities.  It is the specification of the claims about the matching     *)
(* loop itself, which no run of Spec gets through.                         *)
(***************************************************************************)
PatchedNames == {"format_entity_for_prompt", "get_latest_calls"}

\* A MatchAssessment whose match_probability is 1.5: the field is declared
\* `float` with no bounds, so the model class validates it.
OutOfRangeAssessment ==
    [is_match |-> TRUE, confidence |-> "HIGH", match_probability |-> 150,
     matched_entity |-> None]

PatchedMatchOutcomes ==
    {[kind |-> "raise", value |-> DictOf(<< >>), usage |-> NoUsage],
     [kind |-> "returns",
      value |-> DictOf([final_assessment |-> NoEntitiesAssessment]),
      usage |-> MatchUsage],
     [kind |-> "returns",
      value |-> ObjectOf([match_assessment |-> OutOfRangeAssessment]),
      usage |-> MatchUsage]}
    \cup {[kind |-> "returns", value |-> ObjectOf([match_assessment |-> a]),
           usage |-> MatchUsage] : a \in LLMAssessments}

\* the states extract_entities leaves behind when its call succeeded
ExtractedStates ==
    {Merge(InitialState,
           [article_metadata |-> Some([publish_date |-> None]),
            article_text |-> Some("text"),
            entities |-> es, extraction_complete |-> TRUE,
            warnings |-> IF es # << >> THEN << >> ELSE <<NoEntitiesWarning>>]) :
        es \in EntityLists}

InitPatched ==
    /\ pc = "match_person"
    /\ state \in ExtractedStates
    /\ tracker = TrackerAfterInvoke(NewCostTracker, "entity_extraction",
                                    [kind |-> "valid", usage |-> MatchUsage])
    /\ invoked = <<"entity_extraction">>
    /\ executed = <<"fetch_article", "extract_entities">>
    /\ exc = NoException
    /\ produced = None
    /\ cli = NothingPrinted
    /\ assessed = << >>
    /\ unit = NoUnit

MatchPersonPatched ==
    /\ pc = "match_person"
    /\ \E outcomes \in [1..Len(state.entities) -> PatchedMatchOutcomes] :
         /\ Step("match_person",
                 MatchingRun(state, tracker, invoked, outcomes, PatchedNames),
                 "route")
         /\ assessed' = Answers(state.entities, outcomes)
         /\ UNCHANGED unit

NextPatched ==
    \/ MatchPersonPatched
    \/ RouteMatchDecision

SpecPatched == InitPatched /\ [][NextPatched]_vars

(***************************************************************************)
(* The whole run under the test harness: the matching loop replaced by its *)
(* result as in SpecStubbed, get_latest_calls replaced by a double, and    *)
(* the sentiment chain handing back a dict, an object with a               *)
(* sentiment_assessment attribute (what the stage reads), or raising.      *)
(* Here all five stages can succeed.                                       *)
(***************************************************************************)
PatchedSentimentOutcomes ==
    SentimentOutcomes
    \cup {[kind |-> "returns", value |-> ObjectOf([sentiment_assessment |-> a]),
           usage |-> u] : a \in SentimentAssessments, u \in Usages}

AnalyzeSentimentPatched ==
    /\ pc = "analyze_sentiment"
    /\ \E outcome \in PatchedSentimentOutcomes :
         Step("analyze_sentiment",
              SentimentRun(state, tracker, invoked, outcome, PatchedNames),
              "generate_report")
    /\ UNCHANGED <<assessed, unit>>

NextHarness ==
    \/ FetchArticle
    \/ ExtractEntities
    \/ MatchPersonStubbed
    \/ RouteMatchDecision
    \/ AnalyzeSentimentPatched
    \/ GenerateReport
    \/ Screen

SpecHarness == Init /\ [][NextHarness]_vars

(***************************************************************************)
(* The conditional edge alone, on any state a caller can hand it:          *)
(* route_match_decision is a function of the state's match_decision, which *)
(* may be missing ("None") or a value outside the three decisions.         *)
(***************************************************************************)
DecisionValues == {"None", "MATCH", "NO_MATCH", "UNCERTAIN", "REVIEW"}

RouteInputs ==
    {Merge(InitialState,
           [match_decision |-> d, match_assessment |-> ma, entities |-> es,
            extraction_complete |-> ec]) :
        d \in DecisionValues,
        ma \in {None} \cup {Some(a) : a \in LLMAssessments},
        es \in {<< >>, <<[full_name |-> "Ann", age |-> None]>>},
        ec \in BOOLEAN}

InitRoute ==
    /\ pc = "route"
    /\ state \in RouteInputs
    /\ tracker = NewCostTracker
    /\ invoked = << >>
    /\ executed = <<"fetch_article", "extract_entities", "match_person">>
    /\ exc = NoException
    /\ produced = None
    /\ cli = NothingPrinted
    /\ assessed = << >>
    /\ unit = NoUnit

NextRoute == RouteMatchDecision

SpecRoute == InitRoute /\ [][NextRoute]_vars

(***************************************************************************)
(* The conditional edge and generate_report on any state a caller can hand *)
(* them: ReportGenerationNode.run checks for a missing decision, which no  *)
(* run of the whole graph leaves missing when it gets to the node.         *)
(***************************************************************************)
NextReport ==
    \/ RouteMatchDecision
    \/ GenerateReport

SpecReport == InitRoute /\ [][NextReport]_vars

(***************************************************************************)
(* The CostTracker alone: any sequence of record_usage calls on a new      *)
(* tracker.  Here `invoked` is the log of the calls: the arguments of each *)
(* call, in call order.                                                    *)
(***************************************************************************)
MaxCalls == 2

\* token counts, in halves: a whole count and a count ending in .5
PromptTokenCounts == {2, 3}
CompletionTokenCounts == {4}
CacheReadTokenCounts == {0, 2}
CacheWriteTokenCounts == {0, 4}
StepNames == {"entity_extraction", "report_generation"}

UsageCalls ==
    [step : StepNames, provider : Providers,
     prompt_tokens : PromptTokenCounts,
     completion_tokens : CompletionTokenCounts,
     cache_read_tokens : CacheReadTokenCounts,
     cache_write_tokens : CacheWriteTokenCounts]

InitTracker ==
    /\ pc = "cost_tracker"
    /\ state = InitialState
    /\ tracker = NewCostTracker
    /\ invoked = << >>
    /\ executed = << >>
    /\ exc = NoException
    /\ produced = None
    /\ cli = NothingPrinted
    /\ assessed = << >>
    /\ unit = NoUnit

RecordUsage ==
    /\ pc = "cost_tracker"
    /\ Len(invoked) < MaxCalls
    /\ \E call \in UsageCalls :
         /\ tracker' = record_usage(tracker, call.provider, call.prompt_tokens,
                                    call.completion_tokens, call.cache_read_tokens,
                                    call.cache_write_tokens, call.step)
         /\ invoked' = Append(invoked, call)
    /\ UNCHANGED <<pc, state, executed, exc, produced, cli, assessed, unit>>

NextTracker == RecordUsage

SpecTracker == InitTracker /\ [][NextTracker]_vars

(***************************************************************************)
(* LLMFactory on its own (src/src/llm/factory.py, config/settings.py): any *)
(* sequence of get_llm and get_llm_with_fallback calls on one factory.     *)
(* unit = [settings, failing, cache, last]: the Settings of the factory    *)
(* (the providers that have an API key, enable_fallback), the providers    *)
(* whose client constructor raises, the lru_cache of get_llm (least        *)
(* recently used entry first) and the last call with its result.  A result *)
(* is [raised, cause, client, attempted, tried]: the class of the          *)
(* exception and of its __cause__ ("none" if none), the client returned,   *)
(* the providers whose client constructor was called and the providers     *)
(* get_llm was called for, both in call order.  A client is [id, provider, *)
(* model]; id stands for the identity of the object.                       *)
(***************************************************************************)
\* @lru_cache(maxsize=3)
maxsize == 3

\* the order in which get_available_providers appends the providers
ProviderOrder == <<"groq", "openai", "anthropic">>

\* Settings.get_model_name, with the default model names
get_model_name(provider) ==
    CASE provider = "groq" -> "llama-3.3-70b-versatile"
      [] provider = "openai" -> "gpt-4o-2024-11-20"
      [] provider = "anthropic" -> "claude-sonnet-4-20250514"
      [] OTHER -> ""

\* Settings.get_available_providers
get_available_providers(settings) ==
    SelectSeq(ProviderOrder, LAMBDA p : p \in settings.api_keys)

\* validate_provider accepting every provider
validate_provider_m(settings, provider) == provider \in Providers

\* Settings.validate_provider
validate_provider(settings, provider) ==
    \E i \in DOMAIN get_available_providers(settings) :
        get_available_providers(settings)[i] = provider

\* get_fallback_providers trying anthropic first
get_fallback_providers_m(settings, primary) ==
    IF ~settings.enable_fallback THEN << >>
    ELSE SelectSeq(<<"anthropic", "openai", "groq">>,
                   LAMBDA p : p \in settings.api_keys /\ p # primary)

\* Settings.get_fallback_providers
get_fallback_providers(settings, primary) ==
    IF ~settings.enable_fallback THEN << >>
    ELSE SelectSeq(get_available_providers(settings), LAMBDA p : p # primary)

FactoryResult(raised, cause, client, attempted, tried) ==
    [raised |-> raised, cause |-> cause, client |-> client,
     attempted |-> attempted, tried |-> tried]

\* The identity of a newly constructed client: one that no live client has,
\* the clients in the cache and the one the caller holds from the last call.
ClientIds == 1..(maxsize + 2)

NewClientId(f) ==
    LET live == {f.cache[i].client.id : i \in DOMAIN f.cache}
                \cup {f.last.result.client[i].id : i \in DOMAIN f.last.result.client}
    IN  CHOOSE id \in ClientIds \ live : \A other \in ClientIds \ live : id <= other

\* The body of get_llm, which the cache calls on a miss.  model_name: the
\* argument as passed, None when omitted.
get_llm_body(f, provider, model_name) ==
    LET resolved == IF model_name = None THEN get_model_name(provider)
                    ELSE model_name[1]
    IN  IF ~validate_provider(f.settings, provider)
        THEN FactoryResult("ValueError", "none", None, << >>, <<provider>>)
        ELSE IF provider \in f.failing
        THEN FactoryResult("ValidationError", "none", None, <<provider>>,
                           <<provider>>)
        ELSE FactoryResult("none", "none",
                           Some([id |-> NewClientId(f), provider |-> provider,
                                 model |-> resolved]),
                           <<provider>>, <<provider>>)

\* the key lru_cache makes of a call: the arguments as passed
CacheKey(provider, model_name) == <<provider, model_name>>

RemoveAt(seq, i) == SubSeq(seq, 1, i - 1) \o SubSeq(seq, i + 1, Len(seq))

\* get_llm as decorated: [cache, result].  A hit returns the cached client
\* and makes its entry the most recently used; a miss calls the body, and
\* stores what it returns, dropping the least recently used entry of a full
\* cache; an exception of the body leaves the cache as it was.
get_llm(f, provider, model_name) ==
    LET key  == CacheKey(provider, model_name)
        hits == {i \in DOMAIN f.cache : f.cache[i].key = key}
    IN  IF hits # {}
        THEN LET i == CHOOSE i \in hits : TRUE
             IN  [cache  |-> Append(RemoveAt(f.cache, i), f.cache[i]),
                  result |-> FactoryResult("none", "none",
                                           Some(f.cache[i].client), << >>,
                                           <<provider>>)]
        ELSE LET r == get_llm_body(f, provider, model_name)
             IN  IF r.raised # "none" THEN [cache |-> f.cache, result |-> r]
                 ELSE [cache  |-> Append(IF Len(f.cache) >= maxsize
                                         THEN Tail(f.cache) ELSE f.cache,
                                         [key |-> key, client |-> r.client[1]]),
                       result |-> r]

\* the for loop of get_llm_with_fallback over fallback_providers[i..]
RECURSIVE TryFallbacks(_, _, _, _, _)
TryFallbacks(f, fallback_providers, i, primary_error, acc) ==
    IF i > Len(fallback_providers)
    THEN [cache  |-> f.cache,
          result |-> FactoryResult("ConnectionError", primary_error, None,
                                   acc.attempted, acc.tried)]
    ELSE LET r == get_llm(f, fallback_providers[i], None)
             attempted == acc.attempted \o r.result.attempted
             tried     == acc.tried \o r.result.tried
         IN  IF r.result.raised = "none"
             THEN [cache  |-> r.cache,
                   result |-> FactoryResult("none", "none", r.result.client,
                                            attempted, tried)]
             ELSE TryFallbacks([f EXCEPT !.cache = r.cache], fallback_providers,
                               i + 1, primary_error,
                               [attempted |-> attempted, tried |-> tried])

\* LLMFactory.get_llm_with_fallback: [cache, result]
get_llm_with_fallback(f, primary) ==
    LET r == get_llm(f, primary, None)
    IN  IF r.result.raised = "none" THEN r
        ELSE IF f.settings.enable_fallback
        THEN TryFallbacks([f EXCEPT !.cache = r.cache],
                          get_fallback_providers(f.settings, primary),
                          1, r.result.raised,
                          [attempted |-> r.result.attempted,
                           tried |-> r.result.tried])
        ELSE r

NoCall ==
    [op |-> "none", provider |-> "none", model_name |-> None,
     result |-> FactoryResult("none", "none", None, << >>, << >>)]

\* the providers whose client constructor raises
FailingClients == {{}, {"groq"}}

\* a model name other than the one of Settings
OtherModel == "other-model"

InitFactory ==
    /\ pc = "llm_factory"
    /\ state = InitialState
    /\ tracker = NewCostTracker
    /\ invoked = << >>
    /\ executed = << >>
    /\ exc = NoException
    /\ produced = None
    /\ cli = NothingPrinted
    /\ assessed = << >>
    /\ \E api_keys \in SUBSET Providers, enable_fallback \in BOOLEAN,
          failing \in FailingClients :
         unit = [settings |-> [api_keys |-> api_keys,
                               enable_fallback |-> enable_fallback],
                 failing |-> failing, cache |-> << >>, last |-> NoCall]

GetLlm ==
    /\ pc = "llm_factory"
    /\ \E provider \in Providers :
         \E model_name \in {None, Some(get_model_name(provider)), Some(OtherModel)} :
            LET r == get_llm(unit, provider, model_name)
            IN  unit' = [unit EXCEPT !.cache = r.cache,
                                     !.last = [op |-> "get_llm",
                                               provider |-> provider,
                                               model_name |-> model_name,
                                               result |-> r.result]]
    /\ UNCHANGED <<pc, state, tracker, invoked, executed, exc, produced, cli, assessed>>

GetLlmWithFallback ==
    /\ pc = "llm_factory"
    /\ \E primary \in Providers :
         LET r == get_llm_with_fallback(unit, primary)
         IN  unit' = [unit EXCEPT !.cache = r.cache,
                                  !.last = [op |-> "get_llm_with_fallback",
                                            provider |-> primary,
                                            model_name |-> None,
                                            result |-> r.result]]
    /\ UNCHANGED <<pc, state, tracker, invoked, executed, exc, produced, cli, assessed>>

NextFactory ==
    \/ GetLlm
    \/ GetLlmWithFallback

SpecFactory == InitFactory /\ [][NextFactory]_vars

(***************************************************************************)
(* verify_age_alignment on its own (src/src/utils/validators.py).          *)
(* unit = [query_dob_str, article_date, mentioned_age, tolerance_years,    *)
(* result]; result is "pending" until the function has been called.  A     *)
(* date is [year, month, day]; the DOB string is the empty string          *)
(* (<< >>) or <<[year, month, day]>>, the fields as written in it, which   *)
(* date.fromisoformat accepts only if they name a day of the calendar.     *)
(***************************************************************************)
AgeCases ==
    [query_dob_str : {<< >>} \cup {<<d>> : d \in [year : {1978, 1980, 2024},
                                                  month : {1, 2, 6, 13},
                                                  day : {1, 29, 30}]},
     article_date : {[year |-> 2024, month |-> 1, day |-> 1],
                     [year |-> 2024, month |-> 2, day |-> 29],
                     [year |-> 2024, month |-> 6, day |-> 15]},
     mentioned_age : {None, Some(0), Some(-1), Some(43), Some(45), Some(50)},
     tolerance_years : {0, 2},
     result : {"pending"}]

\* date.fromisoformat: the fields must name a day of the Gregorian calendar
ValidDate(d) ==
    LET leap == d.year % 4 = 0 /\ (d.year % 100 # 0 \/ d.year % 400 = 0)
        days == CASE d.month \in {4, 6, 9, 11} -> 30
                  [] d.month = 2 -> (IF leap THEN 29 ELSE 28)
                  [] OTHER -> 31
    IN  d.month \in 1..12 /\ d.day \in 1..days

\* parse_date: Optional[date]
parse_date(date_str) ==
    IF date_str = << >> THEN None
    ELSE IF ValidDate(date_str[1]) THEN Some(date_str[1])
    ELSE None

\* calculate_age: the year difference, less one if the birthday is still to come
calculate_age(dob, date_of_event) ==
    date_of_event.year - dob.year
    - (IF \/ date_of_event.month < dob.month
          \/ date_of_event.month = dob.month /\ date_of_event.day < dob.day
       THEN 1 ELSE 0)

\* verify_age_alignment; `not mentioned_age` holds of None and of 0
verify_age_alignment(query_dob_str, article_date, mentioned_age, tolerance_years) ==
    IF mentioned_age = None \/ mentioned_age = Some(0) THEN "UNCERTAIN"
    ELSE LET query_dob == parse_date(query_dob_str)
         IN  IF query_dob = None THEN "UNCERTAIN"
             ELSE LET calculated_age == calculate_age(query_dob[1], article_date)
                      gap == calculated_age - mentioned_age[1]
                      age_difference == IF gap < 0 THEN -gap ELSE gap
                  IN  IF age_difference <= tolerance_years THEN "MATCH"
                      ELSE "MISMATCH"

InitAge ==
    /\ pc = "validators"
    /\ state = InitialState
    /\ tracker = NewCostTracker
    /\ invoked = << >>
    /\ executed = << >>
    /\ exc = NoException
    /\ produced = None
    /\ cli = NothingPrinted
    /\ assessed = << >>
    /\ unit \in AgeCases

VerifyAgeAlignment ==
    /\ pc = "validators"
    /\ unit.result = "pending"
    /\ unit' = [unit EXCEPT !.result =
                    verify_age_alignment(unit.query_dob_str, unit.article_date,
                                         unit.mentioned_age, unit.tolerance_years)]
    /\ UNCHANGED <<pc, state, tracker, invoked, executed, exc, produced, cli, assessed>>

NextAge == VerifyAgeAlignment

SpecAge == InitAge /\ [][NextAge]_vars

(***************************************************************************)
(* The run from the call of run_workflow (src/src/graph/workflow.py), with *)
(* the query the CLI has validated.  unit = [query, llm_provider,          *)
(* llm_model]: the ScreeningQuery and the two entries of the initial state *)
(* resolved from it (None until run_workflow has built the initial state). *)
(* The stages themselves are bound to settings.default_llm_provider when   *)
(* the graph is built (primary_provider).                                  *)
(***************************************************************************)
\* a plain str: it has none of the attributes of an Enum member
StrOf(text) == [type |-> "str", fields |-> << >>, text |-> text]

\* ScreeningQuery as validated: with use_enum_values the provider field
\* holds the value of the enum member, a str
ScreeningQuery(provider, model) ==
    [provider |-> IF provider = None THEN None ELSE Some(StrOf(provider[1])),
     model |-> model]

Queries ==
    {ScreeningQuery(provider, model) :
        provider \in {None} \cup {Some(p) : p \in Providers},
        model \in {None, Some(OtherModel)}}

\* The entries "llm_provider" and "llm_model" of initial_state, in the order
\* the dict display evaluates them: [raised, llm_provider, llm_model].
ResolveProviderAndModel(query) ==
    IF query.provider # None /\ ~HasAttr(query.provider[1], "value")
    THEN \* query.provider.value of a str
         [raised |-> "AttributeError", llm_provider |-> None, llm_model |-> None]
    ELSE LET provider == IF query.provider # None THEN query.provider[1].text
                         ELSE primary_provider
         IN  [raised |-> "none", llm_provider |-> Some(provider),
              llm_model |-> IF query.model # None THEN query.model
                            ELSE Some(get_model_name(provider))]

InitStart ==
    /\ pc = "run_workflow"
    /\ state = InitialState
    /\ tracker = NewCostTracker
    /\ invoked = << >>
    /\ executed = << >>
    /\ exc = NoException
    /\ produced = None
    /\ cli = NothingPrinted
    /\ assessed = << >>
    /\ \E query \in Queries :
         unit = [query |-> query, llm_provider |-> None, llm_model |-> None]

\* run_workflow up to graph.invoke
StartRun ==
    /\ pc = "run_workflow"
    /\ LET r == ResolveProviderAndModel(unit.query)
       IN  IF r.raised = "none"
           THEN /\ unit' = [unit EXCEPT !.llm_provider = r.llm_provider,
                                        !.llm_model = r.llm_model]
                /\ pc' = "fetch_article"
                /\ exc' = exc
           ELSE /\ unit' = unit
                /\ pc' = "raised"
                /\ exc' = [node |-> "run_workflow", type |-> r.raised]
    /\ UNCHANGED <<state, tracker, invoked, executed, produced, cli, assessed>>

NextStart ==
    \/ StartRun
    \/ FetchArticle
    \/ ExtractEntities
    \/ MatchPerson
    \/ RouteMatchDecision
    \/ GenerateReport
    \/ Screen

SpecStart == InitStart /\ [][NextStart]_vars

(***************************************************************************)
(* ArticleFetcher.fetch_and_parse on its own                               *)
(* (src/src/utils/article_fetcher.py).  unit = [url, event, download,      *)
(* extracted, detected, result].  event is what happens on the wire: an    *)
(* HTTP response with a status, a timeout, a transport error.  download is *)
(* what trafilatura.fetch_url does with it: it returns the document,       *)
(* returns None (its failed download, which the code tests for), or raises *)
(* the requests exception the handlers are written for.  extracted is the  *)
(* result of trafilatura.extract, detected that of langdetect.  result is  *)
(* Optional: None until the call, then [raised, message, metadata].        *)
(***************************************************************************)
TransportEvents ==
    [kind : {"response"}, status : {200, 401, 403, 404, 500}]
    \cup [kind : {"timeout", "transport_error"}, status : {0}]

\* what fetch_url can do on an event
Downloads(event) ==
    IF event.kind = "response" /\ event.status = 200
    THEN {[kind |-> "returns", value |-> Some("html"), status |-> 200]}
    ELSE {[kind |-> "returns", value |-> None, status |-> event.status],
          [kind |-> "raises",
           value |-> Some(CASE event.kind = "response" -> "HTTPError"
                            [] event.kind = "timeout" -> "Timeout"
                            [] OTHER -> "RequestException"),
           status |-> event.status]}

\* what extract can hand back: None, or a dict with or without text
ExtractResults ==
    {None} \cup
    {Some(d) : d \in [text : {"", "one two three"},
                      title : {None, Some("Title")},
                      date : {None, Some("not a date"), Some("2024-05-01T12:00:00")}]}

\* what detect can do: a language code, or LangDetectException
Detections == {"en", "fr", "LangDetectException"}

FetchRaised(type, message) ==
    [raised |-> type, message |-> message, metadata |-> None]

\* _get_article_text: [raised, message, text_content, metadata_dict]
get_article_text(download, extracted) ==
    LET raising(type, message) ==
            [raised |-> type, message |-> message, text_content |-> None,
             metadata_dict |-> None]
    IN  IF download.kind = "raises"
        THEN CASE download.value = Some("HTTPError") ->
                    (IF download.status = 404
                     THEN raising("ValueError", "Article URL returned 404 Not Found.")
                     ELSE IF download.status \in {401, 403}
                     THEN raising("ValueError",
                                  "Article is likely behind a paywall or access is forbidden.")
                     ELSE raising("HTTPError", "HTTP error"))
               [] download.value = Some("Timeout") ->
                    raising("ConnectionError", "Timeout reached while fetching article.")
               [] OTHER ->
                    raising("ConnectionError", "Failed to fetch article")
        ELSE IF download.value = None
        THEN \* the RequestException raised in the try is caught by its handler
             raising("ConnectionError", "Failed to fetch article")
        ELSE IF extracted = None \/ extracted[1].text = ""
        THEN [raised |-> "none", message |-> "", text_content |-> None,
              metadata_dict |-> None]
        ELSE [raised |-> "none", message |-> "",
              text_content |-> Some(extracted[1].text),
              metadata_dict |-> extracted]

\* _detect_language
detect_language(detected) ==
    IF detected = "LangDetectException" THEN "en" ELSE detected

\* datetime.fromisoformat(date_str.split('T')[0]).date(), None on ValueError
ParsePublishDate(date_str) ==
    IF date_str = Some("2024-05-01T12:00:00") THEN Some("2024-05-01") ELSE None

\* fetch_and_parse: [raised, message, metadata]
fetch_and_parse(url, download, extracted, detected) ==
    LET r == get_article_text(download, extracted)
    IN  IF r.raised # "none" THEN FetchRaised(r.raised, r.message)
        ELSE IF r.text_content = None
        THEN FetchRaised("ValueError", "Failed to extract clean article content.")
        ELSE [raised |-> "none", message |-> "",
              metadata |->
                  Some([url |-> url,
                        title |-> IF r.metadata_dict[1].title = None
                                  THEN "Unknown Title"
                                  ELSE r.metadata_dict[1].title[1],
                        publish_date |-> ParsePublishDate(r.metadata_dict[1].date),
                        language |-> detect_language(detected),
                        text_content |-> r.text_content[1]])]

InitFetch ==
    /\ pc = "article_fetcher"
    /\ state = InitialState
    /\ tracker = NewCostTracker
    /\ invoked = << >>
    /\ executed = << >>
    /\ exc = NoException
    /\ produced = None
    /\ cli = NothingPrinted
    /\ assessed = << >>
    /\ \E event \in TransportEvents :
         unit = [url |-> "http://example.com/a", event |-> event,
                 download |-> None, extracted |-> None, detected |-> "en",
                 result |-> None]

FetchAndParse ==
    /\ pc = "article_fetcher"
    /\ unit.result = None
    /\ \E download \in Downloads(unit.event), extracted \in ExtractResults,
          detected \in Detections :
         unit' = [unit EXCEPT !.download = Some(download),
                              !.extracted = extracted,
                              !.detected = detected,
                              !.result = Some(fetch_and_parse(unit.url, download,
                                                              extracted, detected))]
    /\ UNCHANGED <<pc, state, tracker, invoked, executed, exc, produced, cli, assessed>>

NextFetch == FetchAndParse

SpecFetch == InitFetch /\ [][NextFetch]_vars

(***************************************************************************)
(* Helpers of the properties.                                              *)
(***************************************************************************)
Count(seq, x) == Cardinality({i \in DOMAIN seq : seq[i] = x})

IsPrefix(p, q) == Len(p) <= Len(q) /\ SubSeq(q, 1, Len(p)) = p

RunEnded == pc \in {"END", "raised", "cli_done"}

Ran(node) == Count(executed, node) > 0

FetchFailed == Ran("fetch_article") /\ state.article_text = None

MatchOrUncertain == state.match_decision \in {"MATCH", "UNCERTAIN"}

\* the sum of one field over the entries of an audit list
RECURSIVE SumField(_, _)
SumField(entries, f) ==
    IF entries = << >> THEN 0
    ELSE entries[1][f] + SumField(Tail(entries), f)

StageOrders ==
    {<<"fetch_article", "extract_entities", "match_person", "generate_report">>,
     <<"fetch_article", "extract_entities", "match_person", "analyze_sentiment",
       "generate_report">>}

(***************************************************************************)
(* C1.  In every run the stages execute in the order fetch_article,        *)
(* extract_entities, match_person, optionally analyze_sentiment,           *)
(* generate_report, each at most once, and generate_report is the last     *)
(* stage of every run that has ended.                                      *)
(* Violated in Spec: match_person raises on a non-empty entity list (C10)  *)
(* and the run ends there, generate_report never runs.                     *)
(***************************************************************************)
C1_FixedStageOrder ==
    /\ \E order \in StageOrders : IsPrefix(executed, order)
    /\ RunEnded => executed \in StageOrders

(***************************************************************************)
(* C2.  The stage after match_person is analyze_sentiment if and only if   *)
(* match_decision is MATCH or UNCERTAIN; for NO_MATCH, a missing decision  *)
(* and any other value it is generate_report.                              *)
(***************************************************************************)
C2_RouteByDecision ==
    pc # "route" =>
        /\ pc = "analyze_sentiment" <=> MatchOrUncertain
        /\ pc = "generate_report" <=> ~MatchOrUncertain

C2_Witness ==
    \/ pc = "analyze_sentiment" /\ state.match_decision = "UNCERTAIN"
    \/ pc = "generate_report" /\ state.match_decision = "None"

(***************************************************************************)
(* C3.  In every run state that holds a match assessment the decision is   *)
(* NO_MATCH when is_match is false, MATCH when is_match is true and the    *)
(* confidence is HIGH, UNCERTAIN when is_match is true and the confidence  *)
(* is MEDIUM or LOW.                                                       *)
(***************************************************************************)
C3_DecisionFromAssessment ==
    state.match_assessment # None =>
        LET a == state.match_assessment[1]
        IN  /\ ~a.is_match => state.match_decision = "NO_MATCH"
            /\ a.is_match /\ a.confidence = "HIGH" => state.match_decision = "MATCH"
            /\ a.is_match /\ a.confidence \in {"MEDIUM", "LOW"}
                 => state.match_decision = "UNCERTAIN"

C3_Witness ==
    /\ state.match_assessment # None
    /\ state.match_assessment[1].is_match
    /\ state.match_assessment[1].confidence = "LOW"
    /\ pc = "cli_done"

(***************************************************************************)
(* C4.  match_person on an empty entity list makes no LLM call, adds no    *)
(* Cost Tracker entry and returns NO_MATCH with the synthetic assessment:  *)
(* is_match false, confidence LOW, probability 0, no matched entity.       *)
(***************************************************************************)
C4_NoEntitiesNoCall ==
    [][pc = "match_person" /\ state.entities = << >> =>
          /\ tracker' = tracker
          /\ invoked' = invoked
          /\ pc' = "route"
          /\ state'.match_decision = "NO_MATCH"
          /\ state'.match_assessment =
                Some([is_match |-> FALSE, confidence |-> "LOW",
                      match_probability |-> 0, matched_entity |-> None])]_vars

C4_Witness ==
    /\ pc = "route"
    /\ state.entities = << >>
    /\ state.extraction_complete
    /\ state.match_assessment # None

(***************************************************************************)
(* C5.  Once a run is past the sentiment stage, that stage has made no     *)
(* LLM call if the decision is NO_MATCH and exactly one if the decision is *)
(* MATCH or UNCERTAIN; it never makes more than one.                       *)
(***************************************************************************)
SentimentCalls == Count(invoked, "sentiment_analysis")

PastSentiment == pc = "generate_report" \/ Ran("generate_report")

C5_SentimentCalls ==
    /\ SentimentCalls <= 1
    /\ state.match_decision = "NO_MATCH" => SentimentCalls = 0
    /\ PastSentiment /\ MatchOrUncertain => SentimentCalls = 1

C5_Witness ==
    /\ pc = "generate_report"
    /\ state.match_decision = "UNCERTAIN"
    /\ SentimentCalls = 1

(***************************************************************************)
(* C6.  A sentiment assessment is present, in the run state and in the     *)
(* ScreeningResult the report stage builds, only when the decision is      *)
(* MATCH or UNCERTAIN; with NO_MATCH it is absent.                         *)
(***************************************************************************)
C6_SentimentOnlyOnMatch ==
    /\ state.sentiment_assessment # None => MatchOrUncertain
    /\ produced # None /\ produced[1].sentiment_assessment # None
         => produced[1].decision \in {"MATCH", "UNCERTAIN"}

C6_Witness ==
    /\ produced # None
    /\ produced[1].sentiment_assessment # None
    /\ produced[1].decision = "MATCH"

(***************************************************************************)
(* C7.  After a failed fetch the fetch error is in errors and              *)
(* extract_entities runs next; it makes no LLM call, appends the critical  *)
(* "content not found" error, leaves extraction_complete false, and the    *)
(* run goes on to match_person.                                            *)
(***************************************************************************)
C7_FetchFailureProceeds ==
    FetchFailed =>
        /\ Len(state.errors) >= 1
        /\ state.errors[1] \in {FetchErrorMsg(e) : e \in FetchFailures}
        /\ Len(executed) = 1 => pc = "extract_entities"
        /\ Len(executed) >= 2 =>
              /\ executed[2] = "extract_entities"
              /\ Count(invoked, "entity_extraction") = 0
              /\ Count(TrackerSteps(tracker), "entity_extraction") = 0
              /\ Len(state.errors) >= 2
              /\ state.errors[2] = MissingContentError
              /\ ~state.extraction_complete
        /\ Len(executed) = 2 => pc = "match_person"

C7_Witness ==
    /\ FetchFailed
    /\ pc = "match_person"
    /\ state.errors = <<FetchErrorMsg("ConnectionError"), MissingContentError>>

(***************************************************************************)
(* C8.  The final state the CLI reads contains a ScreeningResult if and    *)
(* only if the report stage built one (it ran with a decision and its LLM  *)
(* call succeeded), and then the CLI prints the summary and the report     *)
(* and writes the JSON file.                                               *)
(* Violated in Spec: final_screening_result is no key of ScreeningState,   *)
(* the graph does not keep it, and the CLI prints "Screening Failed".      *)
(***************************************************************************)
C8_ResultReachesCli ==
    pc = "cli_done" =>
        /\ "final_screening_result" \in DOMAIN cli.final_state <=> produced # None
        /\ produced # None =>
              cli.printed = "summary_and_report" /\ cli.json_written

(***************************************************************************)
(* C9.  When a run whose fetch failed has reached the report stage, the    *)
(* CLI prints "Screening Failed" and every error accumulated in the run    *)
(* state, and writes no file.                                              *)
(* Violated in Spec: the report stage raises on the absent article         *)
(* metadata before its try, and the CLI prints only the error of the       *)
(* `except Exception` branch.                                              *)
(***************************************************************************)
C9_AllErrorsPrinted ==
    pc = "cli_done" /\ FetchFailed /\ Ran("generate_report") =>
        /\ cli.printed = "Screening Failed"
        /\ cli.errors = state.errors
        /\ ~cli.json_written

(***************************************************************************)
(* C10.  A failure while evaluating one entity in match_person (building   *)
(* the prompt input, the LLM call, reading the parsed assessment) adds a   *)
(* warning and skips the entity; it never escapes the stage.               *)
(* Violated in Spec: format_entity_for_prompt raises on the dict it is     *)
(* given, while prompt_vars is built before the try.                       *)
(***************************************************************************)
C10_FailureStaysInStage == Ran("match_person") => exc.node # "match_person"

(***************************************************************************)
(* C11.  When the matching loop has read at least one assessment, the      *)
(* assessment match_person retains is one of those read, carries the       *)
(* entity it was read for, and no assessment read has a greater            *)
(* match_probability.                                                      *)
(***************************************************************************)
C11_BestIsMaximum ==
    Ran("match_person") /\ assessed # << >> =>
        /\ state.match_assessment # None
        /\ \E k \in DOMAIN assessed : state.match_assessment[1] = assessed[k]
        /\ \A k \in DOMAIN assessed :
               state.match_assessment[1].match_probability
                   >= assessed[k].match_probability

C11_Witness ==
    /\ pc = "route"
    /\ Len(assessed) = 2
    /\ assessed[1].match_probability < assessed[2].match_probability
    /\ state.match_assessment = Some(assessed[2])
    /\ state.match_assessment[1].matched_entity = Some(state.entities[2])

(***************************************************************************)
(* C12.  When match_person has run on a non-empty entity list and no       *)
(* entity was evaluated successfully, the decision is NO_MATCH, the        *)
(* critical "all matching attempts failed" error is in errors, and the run *)
(* goes on to generate_report without analyze_sentiment.                   *)
(* Violated in Spec: the failure of the first entity escapes match_person  *)
(* (C10), which returns nothing, and the run ends there.                   *)
(***************************************************************************)
C12_AllFailedNoMatch ==
    Ran("match_person") /\ state.entities # << >> /\ assessed = << >> =>
        /\ state.match_decision = "NO_MATCH"
        /\ Count(state.errors, AllFailedError) = 1
        /\ ~Ran("analyze_sentiment")
        /\ pc \in {"route", "generate_report"} \/ Ran("generate_report")

(***************************************************************************)
(* C13.  When the LLM call of analyze_sentiment raises, the stage does not *)
(* raise: it stores the substitute assessment (NEUTRAL, not adverse, no    *)
(* severity, no indicators, no snippets), appends its error to errors,     *)
(* leaves the decision as it was, and the run goes on to generate_report.  *)
(***************************************************************************)
SentimentCallFailed ==
    /\ pc = "analyze_sentiment"
    /\ invoked' = Append(invoked, "sentiment_analysis")
    /\ tracker' = tracker

C13_SentimentFailureSubstitute ==
    [][SentimentCallFailed =>
          /\ state'.sentiment_assessment # None
          /\ state'.sentiment_assessment[1].classification = "NEUTRAL"
          /\ ~state'.sentiment_assessment[1].is_adverse_media
          /\ state'.sentiment_assessment[1].severity = None
          /\ state'.sentiment_assessment[1].adverse_indicators = << >>
          /\ state'.sentiment_assessment[1].evidence_snippets = << >>
          /\ state'.errors = Append(state.errors, SentimentError)
          /\ state'.match_decision = state.match_decision
          /\ exc' = NoException
          /\ pc' = "generate_report"]_vars

C13_Witness ==
    /\ pc = "generate_report"
    /\ Ran("analyze_sentiment")
    /\ Count(invoked, "sentiment_analysis") = 1
    /\ Count(TrackerSteps(tracker), "sentiment_analysis") = 0
    /\ state.sentiment_assessment = Some(TechnicalFailureAssessment)
    /\ state.match_decision = "MATCH"

(***************************************************************************)
(* C14.  generate_report on a state without a decision makes no LLM call,  *)
(* records nothing in the Cost Tracker, appends the "decision missing"     *)
(* error to errors, builds no ScreeningResult and does not raise.          *)
(***************************************************************************)
C14_DecisionMissingReport ==
    [][pc = "generate_report" /\ state.match_decision = "None" =>
          /\ invoked' = invoked
          /\ tracker' = tracker
          /\ state'.errors = Append(state.errors, DecisionMissingError)
          /\ produced' = None
          /\ exc' = NoException
          /\ pc' = "END"]_vars

C14_Witness ==
    /\ pc = "END"
    /\ executed[Len(executed)] = "generate_report"
    /\ state.match_decision = "None"
    /\ state.match_assessment # None
    /\ state.errors = <<DecisionMissingError>>
    /\ produced = None

(***************************************************************************)
(* C15.  In every ScreeningResult the report stage builds, the token       *)
(* counts and the estimated cost of its ProcessingMetadata are the sums    *)
(* over the audit entries of the Cost Tracker, the entry of the            *)
(* report_generation call included.  (The metadata holds whole tokens, the *)
(* tracker halves.)                                                        *)
(***************************************************************************)
C15_MetadataEqualsTrackerSums ==
    produced # None =>
        LET md    == produced[1].processing_metadata
            calls == tracker.llm_calls
        IN  /\ Count(TrackerSteps(tracker), "report_generation") = 1
            /\ 2 * md.prompt_tokens = SumField(calls, "prompt_tokens")
            /\ 2 * md.completion_tokens = SumField(calls, "completion_tokens")
            /\ 2 * md.total_tokens =
                   SumField(calls, "prompt_tokens")
                   + SumField(calls, "completion_tokens")
            /\ 2 * md.cache_read_tokens = SumField(calls, "cache_read_tokens")
            /\ 2 * md.cache_write_tokens = SumField(calls, "cache_write_tokens")
            /\ md.estimated_cost_usd = SumField(calls, "cost_usd")

C15_Witness ==
    /\ produced # None
    /\ Len(tracker.llm_calls) = 2
    /\ produced[1].processing_metadata.total_tokens = 9
    /\ produced[1].processing_metadata.estimated_cost_usd > 0

(***************************************************************************)
(* C16.  After any sequence of record_usage calls on a new CostTracker,    *)
(* total_tokens is prompt_tokens plus completion_tokens, every running     *)
(* total is the sum of its field over the audit list, and the audit list   *)
(* holds one entry per call, in call order, with the arguments of the call.*)
(***************************************************************************)
C16_TrackerTotals ==
    pc = "cost_tracker" =>
        LET calls == tracker.llm_calls
        IN  /\ tracker.total_tokens
                 = tracker.prompt_tokens + tracker.completion_tokens
            /\ tracker.prompt_tokens = SumField(calls, "prompt_tokens")
            /\ tracker.completion_tokens = SumField(calls, "completion_tokens")
            /\ tracker.cache_read_tokens = SumField(calls, "cache_read_tokens")
            /\ tracker.cache_write_tokens = SumField(calls, "cache_write_tokens")
            /\ tracker.total_cost_usd = SumField(calls, "cost_usd")
            /\ Len(calls) = Len(invoked)
            /\ \A i \in DOMAIN calls :
                   \A f \in DOMAIN invoked[i] : calls[i][f] = invoked[i][f]

C16_Witness ==
    /\ pc = "cost_tracker"
    /\ Len(invoked) = 2
    /\ invoked[1].step = "report_generation"
    /\ invoked[2].step = "entity_extraction"
    /\ invoked[1].prompt_tokens # invoked[2].prompt_tokens
    /\ TrackerSteps(tracker) = <<"report_generation", "entity_extraction">>

(***************************************************************************)
(* C17.  The cost record_usage records for a call is the cost of its       *)
(* prompt and completion tokens, plus, for Anthropic only, 0.30 USD per    *)
(* million cache-read tokens and 3.75 USD per million cache-write tokens   *)
(* (30 and 375 cents); for Groq and OpenAI the cache token counts change   *)
(* nothing.                                                                *)
(***************************************************************************)
C17_CachePricingAnthropicOnly ==
    pc = "cost_tracker" =>
        \A i \in DOMAIN tracker.llm_calls :
            LET e == tracker.llm_calls[i]
                tokens_cost ==
                    e.prompt_tokens * LLM_PRICING_USD_PER_M[e.provider].input
                    + e.completion_tokens * LLM_PRICING_USD_PER_M[e.provider].output
            IN  e.cost_usd =
                    IF e.provider = "anthropic"
                    THEN tokens_cost + e.cache_read_tokens * 30
                                     + e.cache_write_tokens * 375
                    ELSE tokens_cost

C17_Witness ==
    /\ pc = "cost_tracker"
    /\ Len(tracker.llm_calls) = 2
    /\ tracker.llm_calls[1].provider = "groq"
    /\ tracker.llm_calls[1].cache_read_tokens > 0
    /\ tracker.llm_calls[1].cache_write_tokens > 0
    /\ tracker.llm_calls[2].provider = "anthropic"
    /\ tracker.llm_calls[2].cache_read_tokens > 0
    /\ tracker.llm_calls[2].cost_usd > tracker.llm_calls[1].cost_usd

(***************************************************************************)
(* C18.  Every attempt of analyze_sentiment at its LLM call leaves one     *)
(* Cost Tracker entry with step "sentiment_analysis", whether the call     *)
(* returns or raises.                                                      *)
(* Violated in SpecStubbed: _invoke_chain_with_tracking records the usage  *)
(* after chain.invoke has returned; when it raises nothing is recorded.    *)
(***************************************************************************)
C18_EntryPerSentimentAttempt ==
    Count(TrackerSteps(tracker), "sentiment_analysis")
        = Count(invoked, "sentiment_analysis")

(***************************************************************************)
(* C19.  At the end of a run whose stages all succeeded (no error, the     *)
(* ScreeningResult built), the audit list llm_calls of the final state has *)
(* one entry per LLM call made in the run.                                 *)
(* Violated in Spec: extract_entities and generate_report do not return    *)
(* llm_calls, and the two stages that do read a method the CostTracker     *)
(* does not have; the list stays empty.                                    *)
(***************************************************************************)
C19_AuditListComplete ==
    pc = "cli_done" /\ exc = NoException /\ produced # None /\ state.errors = << >>
        => Len(cli.final_state.llm_calls) = Len(invoked)

(***************************************************************************)
(* C20.  After a run in which the five stages all succeeded with decision  *)
(* MATCH, the final state the CLI reads has a steps_completed list naming  *)
(* fetch_article, extract_entities, match_person, analyze_sentiment and    *)
(* generate_report.                                                        *)
(* Violated in SpecHarness: steps_completed is no key of ScreeningState,   *)
(* so the graph keeps none of the lists the stages return.                 *)
(***************************************************************************)
AllFiveSucceeded ==
    /\ pc = "cli_done"
    /\ executed = <<"fetch_article", "extract_entities", "match_person",
                    "analyze_sentiment", "generate_report">>
    /\ exc = NoException
    /\ state.errors = << >>
    /\ state.match_decision = "MATCH"
    /\ state.sentiment_assessment # None
    /\ produced # None

C20_StepsCompleted ==
    AllFiveSucceeded =>
        /\ "steps_completed" \in DOMAIN cli.final_state
        /\ \A step \in {"fetch_article", "extract_entities", "match_person",
                        "analyze_sentiment", "generate_report"} :
               Count(StepsCompleted(cli.final_state), step) > 0

(***************************************************************************)
(* C21.  A get_llm call for a provider that has no API key raises the      *)
(* "not configured" ValueError, calls no client constructor, returns no    *)
(* client and leaves the cache as it was.                                  *)
(***************************************************************************)
C21_MissingKeyNotCached ==
    [][unit'.last.op = "get_llm"
         /\ unit'.last.provider \notin unit.settings.api_keys =>
          /\ unit'.last.result.raised = "ValueError"
          /\ unit'.last.result.attempted = << >>
          /\ unit'.last.result.client = None
          /\ unit'.cache = unit.cache]_vars

C21_Witness ==
    /\ pc = "llm_factory"
    /\ unit.last.op = "get_llm"
    /\ unit.last.provider = "openai"
    /\ unit.last.result.raised = "ValueError"
    /\ Len(unit.cache) = maxsize

(***************************************************************************)
(* C22.  A get_llm call that returns a client returns the instance the     *)
(* cache holds for the same provider and the same resolved model name,     *)
(* whenever the cache holds one, whether the model name was passed or      *)
(* omitted.                                                                *)
(* Violated in SpecFactory: lru_cache keys an entry by the arguments as    *)
(* passed, so get_llm(p) and get_llm(p, <the model name of Settings>) are  *)
(* two entries with two clients.                                           *)
(***************************************************************************)
C22_SameClientForSameModel ==
    [][unit'.last.op = "get_llm" /\ unit'.last.result.raised = "none" =>
          \A i \in DOMAIN unit.cache :
              /\ unit.cache[i].client.provider = unit'.last.provider
              /\ unit.cache[i].client.model = unit'.last.result.client[1].model
              => unit'.last.result.client[1] = unit.cache[i].client]_vars

(***************************************************************************)
(* C23.  get_llm_with_fallback returns the client of the primary provider  *)
(* when get_llm succeeds for it, trying no other.  When it fails and       *)
(* fallback is enabled, the client returned is that of the first provider  *)
(* in the order groq, openai, anthropic, other than the primary, that has  *)
(* an API key and for which get_llm succeeds; if there is none it raises   *)
(* ConnectionError with the primary error as its cause.  When fallback is  *)
(* disabled it raises the primary error itself and tries no other          *)
(* provider.                                                               *)
(***************************************************************************)
ProviderRank(p) == CHOOSE i \in DOMAIN ProviderOrder : ProviderOrder[i] = p

Usable(f, p) == p \in f.settings.api_keys /\ p \notin f.failing

PrimaryError(f, p) ==
    IF p \notin f.settings.api_keys THEN "ValueError" ELSE "ValidationError"

C23_FallbackOrder ==
    [][unit'.last.op = "get_llm_with_fallback" =>
          LET primary == unit'.last.provider
              result  == unit'.last.result
              others  == {p \in Providers \ {primary} : Usable(unit, p)}
          IN  /\ Usable(unit, primary) =>
                    /\ result.raised = "none"
                    /\ result.client[1].provider = primary
                    /\ result.tried = <<primary>>
              /\ ~Usable(unit, primary) /\ unit.settings.enable_fallback =>
                    IF others # {}
                    THEN /\ result.raised = "none"
                         /\ result.client[1].provider \in others
                         /\ \A p \in others :
                                ProviderRank(result.client[1].provider)
                                    <= ProviderRank(p)
                    ELSE /\ result.raised = "ConnectionError"
                         /\ result.cause = PrimaryError(unit, primary)
                         /\ result.client = None
              /\ ~Usable(unit, primary) /\ ~unit.settings.enable_fallback =>
                    /\ result.raised = PrimaryError(unit, primary)
                    /\ result.cause = "none"
                    /\ result.client = None
                    /\ result.tried = <<primary>>]_vars

C23_Witness ==
    /\ pc = "llm_factory"
    /\ unit.last.op = "get_llm_with_fallback"
    /\ unit.last.provider = "openai"
    /\ unit.last.result.tried = <<"openai", "groq", "anthropic">>
    /\ unit.last.result.attempted = <<"groq", "anthropic">>
    /\ unit.last.result.client # None
    /\ unit.last.result.client[1].provider = "anthropic"

(***************************************************************************)
(* C24.  verify_age_alignment returns UNCERTAIN exactly when the mentioned *)
(* age is absent or the DOB does not parse; otherwise MATCH exactly when   *)
(* the whole-years age at the article date and the mentioned age differ by *)
(* at most the tolerance, otherwise MISMATCH; for every mentioned age, 0   *)
(* included.                                                               *)
(* Violated in SpecAge: a mentioned age of 0 is taken for an absent one    *)
(* (`if not mentioned_age`) and the result is UNCERTAIN.                   *)
(***************************************************************************)
AgeAt(dob, on) ==
    IF on.month * 100 + on.day >= dob.month * 100 + dob.day
    THEN on.year - dob.year
    ELSE on.year - dob.year - 1

C24_AgeAlignment ==
    pc = "validators" /\ unit.result # "pending" =>
        LET parses == unit.query_dob_str # << >> /\ ValidDate(unit.query_dob_str[1])
        IN  IF unit.mentioned_age = None \/ ~parses
            THEN unit.result = "UNCERTAIN"
            ELSE LET gap == AgeAt(unit.query_dob_str[1], unit.article_date)
                            - unit.mentioned_age[1]
                 IN  IF gap <= unit.tolerance_years /\ -gap <= unit.tolerance_years
                     THEN unit.result = "MATCH"
                     ELSE unit.result = "MISMATCH"

(***************************************************************************)
(* C25.  A stage changes no field of the run state that its update does    *)
(* not contain.  For match_person: none of its three returns has a key     *)
(* other than match_assessment, match_decision, errors, llm_calls and      *)
(* steps_completed, so every other field, the warnings list included, is   *)
(* after the stage what it was before.                                     *)
(* Violated in SpecPatched: the except branch of the matching loop appends *)
(* to state["warnings"] in place.                                          *)
(***************************************************************************)
MatchPersonReturns ==
    {"match_assessment", "match_decision", "errors", "llm_calls",
     "steps_completed"}

C30_ErrorsOnlyGrow ==
    [][/\ IsPrefix(state.errors, state'.errors)
       /\ pc' = "cli_done" /\ exc' = NoException =>
              cli'.final_state.errors = state'.errors]_vars

C30_Witness ==
    /\ pc = "cli_done"
    /\ exc = NoException
    /\ state.errors = <<SentimentError, ReportError>>
    /\ cli.final_state.errors = state.errors

(***************************************************************************)
(* C26.  Once run_workflow has been called, the run has entered the graph  *)
(* (building the initial state did not raise), the provider resolved from  *)
(* the query (its override if given, else the default of the process) is   *)
(* the one in the initial state, and every Cost Tracker entry of the run   *)
(* names that provider.                                                    *)
(* Violated in SpecStart: with a provider override run_workflow reads      *)
(* query.provider.value of a str and raises before the graph is invoked.   *)
(***************************************************************************)
C26_ResolvedProviderUsed ==
    pc # "run_workflow" =>
        LET resolved == IF unit.query.provider # None
                        THEN unit.query.provider[1].text
                        ELSE primary_provider
        IN  /\ exc.node # "run_workflow"
            /\ unit.llm_provider = Some(resolved)
            /\ \A i \in DOMAIN tracker.llm_calls :
                   tracker.llm_calls[i].provider = resolved

(***************************************************************************)
(* C27.  fetch_and_parse raises ValueError on an HTTP 404 response and on  *)
(* an HTTP 401 or 403 response, ConnectionError on a timeout or a          *)
(* transport error, and ValueError with the message "Failed to extract     *)
(* clean article content." when the document yields no text.               *)
(* Violated in SpecFetch: a download that fetch_url reports by returning   *)
(* None raises RequestException inside the try, whose handler turns it     *)
(* into ConnectionError, whatever the HTTP status was.                     *)
(***************************************************************************)
C27_FetchErrorClasses ==
    pc = "article_fetcher" /\ unit.result # None =>
        /\ unit.event.kind = "response" /\ unit.event.status \in {401, 403, 404}
             => unit.result[1].raised = "ValueError"
        /\ unit.event.kind \in {"timeout", "transport_error"}
             => unit.result[1].raised = "ConnectionError"
        /\ (/\ unit.event.kind = "response" /\ unit.event.status = 200
            /\ unit.extracted = None \/ unit.extracted[1].text = "")
             => /\ unit.result[1].raised = "ValueError"
                /\ unit.result[1].message = "Failed to extract clean article content."

(***************************************************************************)
(* C28.  Every run ends at the terminal of the graph after at most five    *)
(* stage executions, whatever the outcome of each stage: no run has more   *)
(* than five stage executions and none ends anywhere but at END.           *)
(* Violated in Spec: the exception of match_person on a non-empty entity   *)
(* list (C10) ends the run after three stage executions, short of END.     *)
(***************************************************************************)
C28_RunReachesTerminal ==
    /\ Len(executed) <= 5
    /\ pc # "raised"

====
